---- MODULE Spec2Model ----
(***************************************************************************)
(* Model of src/rust/src/instance.rs: the handle-based native bridge       *)
(* (get_memory, set_memory, close, execute) and the host-function closure  *)
(* built by create_host.                                                   *)
(*                                                                         *)
(* Machine integers keep their width, scaled down: a jint (i32) has        *)
(* IntBits bits, a usize / u64 / jlong has WordBits = 2 * IntBits bits.    *)
(* The linear memory comes in pages, up to 2^IntBits bytes, as a 32-bit    *)
(* WebAssembly memory comes in 64 KiB pages up to 2^32 bytes.              *)
(***************************************************************************)
EXTENDS Integers, Sequences, FiniteSets, TLC

\* ------------------------------------------------------------------ widths

\* Width of jint / i32 in the model (32 in the program).
IntBits == 4

\* Width of usize / u64 / jlong / i64 in the model (64 in the program).
WordBits == 2 * IntBits

IntMod == 2 ^ IntBits
WordMod == 2 ^ WordBits
IntMin == -(2 ^ (IntBits - 1))
IntMax == 2 ^ (IntBits - 1) - 1
WordMin == -(2 ^ (WordBits - 1))
WordMax == 2 ^ (WordBits - 1) - 1

\* A byte has 8 bits: u8 in the linear memory, jbyte (i8) in a jbyteArray.
ByteMod == 256

\* `x as i32`: keep the low IntBits bits, read as two's complement.
AsI32(x) ==
    LET m == x % IntMod
    IN  IF m > IntMax THEN m - IntMod ELSE m

\* `x as usize`, `x as u64`: sign-extend and keep the low WordBits bits.
AsU64(x) == x % WordMod

\* `x as i64`: keep the low WordBits bits, read as two's complement.
AsI64(x) ==
    LET m == x % WordMod
    IN  IF m > WordMax THEN m - WordMod ELSE m

\* jbyte -> u8 (convert_byte_array) and u8 -> jbyte (byte_array_from_slice).
AsU8(b) == b % ByteMod
AsI8(u) == IF u >= ByteMod \div 2 THEN u - ByteMod ELSE u

\* ------------------------------------------------------------------ inputs

\* Handles given out by instantiation; 0 is the null descriptor.  Instance 1
\* is of a module that exports a memory named "memory", instance 2 of a module
\* that exports none.
Handles == {1, 2}
Descriptors == {0} \cup Handles
HasMemoryExport(h) == h = 1

\* The page of the linear memory (64 KiB in the engine), scaled with IntBits.
PageSize == 2 ^ (IntBits \div 2)

\* Memory sizes: empty, one page, exactly 2^(IntBits-1) bytes ("2 GiB") and
\* the largest 32-bit memory, 2^IntBits bytes ("4 GiB").
MemSizes == {0, PageSize, 2 ^ (IntBits - 1), IntMod}

\* Longest jbyteArray handed to set_memory.
MaxBuf == 2

\* jint arguments tried: the extremes, -1, zero and the buffer lengths.
Offs == {IntMin, -1, 0, IntMax}
Lens == {-1, IntMax} \cup (0 .. MaxBuf)

\* The jbyteArrays handed to set_memory: <<0>> and the prefixes of
\* <<-1, 0, -1, ..>>, jbytes that differ from their u8 form and from each other.
Bufs == {<<0>>} \cup {[i \in 1 .. n |-> IF i % 2 = 1 THEN -1 ELSE 0] : n \in 0 .. MaxBuf}

\* ------------------------------------------------------------------ state

VARIABLES
    live,            \* handles that resolve to a live instance (process-wide table)
    mem,             \* mem[h]: the linear memory of instance h, byte a at mem[h][a + 1]
    released,        \* released[h]: how many times instance h was released
    overflowChecks,  \* the build panics on integer overflow (debug) or wraps (release)
    res              \* the last call and what it returned

vars == <<live, mem, released, overflowChecks, res>>

\* view.data_size(): the size of the instance's memory in bytes.
data_size(h) == Len(mem[h])

ZeroMemory(n) == [a \in 1 .. n |-> 0]

Init ==
    /\ live = Handles
    /\ \E n \in MemSizes :
          mem = [h \in Handles |-> IF HasMemoryExport(h) THEN ZeroMemory(n) ELSE <<>>]
    /\ released = [h \in Handles |-> 0]
    /\ overflowChecks \in BOOLEAN
    /\ res = [op |-> "none"]

\* crate::get_ins_by_id: the handle resolves to a live instance of the table.
get_ins_by_id(h) == h \in live

\* The call made with a handle that resolves to no live instance: it reaches
\* no instance and no memory.
NoInstance(call) == call @@ [kind |-> "no_instance", msg |-> "no live instance"]

Failure(call, msg) == call @@ [kind |-> "err", msg |-> msg]
Panic(call, msg) == call @@ [kind |-> "panic", msg |-> msg]

\* ------------------------------------------------------------- get_memory

\* The jbyteArray made of the memory bytes at start .. start + n - 1.
BytesAt(h, start, n) == [i \in 1 .. n |-> AsI8(mem[h][start + i])]

\* view.copy_range_to_vec(start..end).expect("Memory Access Error"), then
\* env.byte_array_from_slice.  For a range that ends past the memory the
\* engine either fails, and expect panics, or copies the part of the range
\* that lies inside the memory; making the jbyteArray may fail in the JVM.
copy_range_to_vec(call, h, start, end) ==
    LET size == data_size(h)
        stop == IF end > size THEN size ELSE end
        n    == IF stop > start THEN stop - start ELSE 0
    IN  {call @@ [kind |-> "ok", msg |-> "", data |-> BytesAt(h, start, n)],
         Failure(call, "jni error")}
        \cup (IF end > size THEN {Panic(call, "Memory Access Error")} ELSE {})

\* The bounds check of get_memory: (off + len) > view.data_size() as i32
\* || off < 0 || len < 0, the sum taken in i32.
get_memory_rejects(h, off, len) ==
    \/ AsI32(off + len) > AsI32(data_size(h))
    \/ off < 0
    \/ len < 0

\* What get_memory(descriptor, off, len) can return.
get_memory_results(h, off, len) ==
    LET call == [op |-> "get_memory", h |-> h, off |-> off, len |-> len]
    IN  IF ~get_ins_by_id(h) THEN {NoInstance(call)}
        ELSE IF ~HasMemoryExport(h) THEN {Failure(call, "missing export")}
        ELSE IF (off + len < IntMin \/ off + len > IntMax) /\ overflowChecks
        THEN {Panic(call, "attempt to add with overflow")}
        ELSE IF get_memory_rejects(h, off, len)
        THEN {Failure(call, "memory access overflow")}
        ELSE copy_range_to_vec(call, h, AsU64(off), AsU64(off) + AsU64(len))

get_memory(h, off, len) ==
    /\ res' \in get_memory_results(h, off, len)
    /\ UNCHANGED <<live, mem, released, overflowChecks>>

\* ------------------------------------------------------------- set_memory

\* The bounds check of set_memory: (off as usize + bytes.len()) as u64 >
\* view.data_size(), the sum taken in usize.
set_memory_rejects(h, off, n) == (AsU64(off) + n) % WordMod > data_size(h)

\* view.write(off as u64, &bytes): the engine checks offset + len without
\* wrapping and against the memory size, then copies.
view_write_ok(h, off, n) ==
    /\ AsU64(off) + n < WordMod
    /\ AsU64(off) + n <= data_size(h)

MemoryAfterWrite(h, start, bytes) ==
    [mem EXCEPT ![h] =
        [a \in 1 .. Len(mem[h]) |->
            IF a > start /\ a <= start + Len(bytes)
            THEN AsU8(bytes[a - start])
            ELSE mem[h][a]]]

\* What set_memory(descriptor, off, buf) can return; env.convert_byte_array
\* may fail in the JVM.
set_memory_results(h, off, buf) ==
    LET call == [op |-> "set_memory", h |-> h, off |-> off, buf |-> buf]
    IN  IF ~get_ins_by_id(h) THEN {NoInstance(call)}
        ELSE {Failure(call, "jni error")} \cup
             (IF ~HasMemoryExport(h) THEN {Failure(call, "missing export")}
              ELSE IF AsU64(off) + Len(buf) >= WordMod /\ overflowChecks
              THEN {Panic(call, "attempt to add with overflow")}
              ELSE IF set_memory_rejects(h, off, Len(buf))
              THEN {Failure(call, "memory access overflow")}
              ELSE IF ~view_write_ok(h, off, Len(buf))
              THEN {Failure(call, "Got memory access error")}
              ELSE {call @@ [kind |-> "ok", msg |-> ""]})

set_memory(h, off, buf) ==
    /\ res' \in set_memory_results(h, off, buf)
    /\ mem' = IF res'.kind = "ok" THEN MemoryAfterWrite(h, AsU64(off), buf) ELSE mem
    /\ UNCHANGED <<live, released, overflowChecks>>

\* ------------------------------------------------------------------ close

\* Rp::is_null: the descriptor is the null handle.
is_null(h) == h = 0

\* Rp::drop that releases whatever the handle names, in the table or not.
RpDropAgain(h) ==
    [live     |-> live \ {h},
     released |-> [released EXCEPT ![h] = @ + 1]]

\* Rp::drop: the instance is released and its handle leaves the table; a
\* handle the table does not hold has nothing to release.
RpDrop(h) ==
    [live     |-> live \ {h},
     released |-> IF h \in live THEN [released EXCEPT ![h] = @ + 1] ELSE released]

\* close that returns without dropping the instance.
close_keeps(h) ==
    /\ res' = [op |-> "close", h |-> h, kind |-> "ok", msg |-> "",
               wasLive |-> h \in live]
    /\ UNCHANGED <<live, mem, released, overflowChecks>>

\* close that refuses the null descriptor.
close_refuses_null(h) ==
    /\ res' = [op |-> "close", h |-> h, kind |-> IF is_null(h) THEN "err" ELSE "ok",
               msg |-> "", wasLive |-> h \in live]
    /\ IF is_null(h)
       THEN UNCHANGED <<live, released>>
       ELSE /\ live' = RpDrop(h).live
            /\ released' = RpDrop(h).released
    /\ UNCHANGED <<mem, overflowChecks>>

close(h) ==
    /\ res' = [op |-> "close", h |-> h, kind |-> "ok", msg |-> "",
               wasLive |-> h \in live]
    /\ IF is_null(h)
       THEN UNCHANGED <<live, released>>
       ELSE /\ live' = RpDrop(h).live
            /\ released' = RpDrop(h).released
    /\ UNCHANGED <<mem, overflowChecks>>

\* ------------------------------------------------------------ value vectors

\* A wasmer Value: its type and its payload.
Val(ty, v) == [ty |-> ty, v |-> v]

\* as_i64_vec!: each Value as an i64, in order; a Value that is neither an
\* integer nor a float has no i64 form.
Supported(ty) == ty \in {"I32", "I64"}
as_i64_vec_ok(vals) == \A i \in 1 .. Len(vals) : Supported(vals[i].ty)
as_i64_vec(vals) == [i \in 1 .. Len(vals) |-> AsI64(vals[i].v)]

\* ToVmType::convert: each i64 as a Value of the declared type, in order; an
\* I32 keeps the low bits of the i64.
convert_ok(types) == \A i \in 1 .. Len(types) : Supported(types[i])
convert(types, v) ==
    [i \in 1 .. Len(types) |->
        IF types[i] = "I32" THEN Val("I32", AsI32(v[i])) ELSE Val(types[i], v[i])]

\* ---------------------------------------------------------------- execute

\* The functions both modules export: id returns its argument, poke stores
\* a byte at address 0 (and traps when the memory is empty), ref returns a
\* function reference, vec takes a vector.
FunctionNames == {"id", "poke", "ref", "vec"}
ExportNames(h) == FunctionNames \cup (IF HasMemoryExport(h) THEN {"memory"} ELSE {})
MethodNames == FunctionNames \cup {"memory", "missing"}

\* fun.ty(&store): the declared signature of an exported function.
FunTy(name) ==
    CASE name = "id"   -> [params |-> <<"I32">>,  results |-> <<"I32">>]
      [] name = "poke" -> [params |-> <<>>,       results |-> <<>>]
      [] name = "ref"  -> [params |-> <<>>,       results |-> <<"FuncRef">>]
      [] name = "vec"  -> [params |-> <<"V128">>, results |-> <<>>]

\* fun.param_arity(&store).
param_arity(name) == Len(FunTy(name).params)

\* The jlong arrays handed to execute.
ArgVectors == {<<>>, <<-1>>, <<IntMod + 1>>, <<1, 2>>}

\* fun.call(&mut store, a): the engine runs the function.
fun_call(h, name, a) ==
    CASE name = "id"   -> [trapped |-> FALSE, vals |-> <<a[1]>>]
      [] name = "poke" -> [trapped |-> data_size(h) = 0, vals |-> <<>>]
      [] name = "ref"  -> [trapped |-> FALSE, vals |-> <<Val("FuncRef", 0)>>]
      [] name = "vec"  -> [trapped |-> FALSE, vals |-> <<>>]

\* The arity check of execute: fun.param_arity(&store) != a.len().
arity_mismatch_lax(name, args) == param_arity(name) > Len(args)
arity_mismatch(name, args) == param_arity(name) # Len(args)

\* fun.call(..).map_err(..)?: a trap of the engine ends the call with a failure.
runtime_error_ignored(r) == FALSE
runtime_error(r) == r.trapped

\* What execute(id, method, args) can return; env.get_string,
\* env.jlong_array_to_vec and env.slice_to_jlong_array may fail in the JVM.
execute_results(h, name, args) ==
    LET call == [op |-> "execute", h |-> h, name |-> name, args |-> args]
        before(kind, msg) ==
            call @@ [kind |-> kind, msg |-> msg, invoked |-> FALSE, trapped |-> FALSE]
        after(kind, msg, r) ==
            call @@ [kind |-> kind, msg |-> msg, invoked |-> TRUE, trapped |-> r.trapped]
    IN  IF ~get_ins_by_id(h) THEN {before("no_instance", "no live instance")}
        ELSE {before("err", "jni error")} \cup
             (IF name \notin ExportNames(h) THEN {before("err", "missing export")}
              ELSE IF name \notin FunctionNames
              THEN {before("err", "incompatible export type")}
              ELSE IF arity_mismatch(name, args)
              THEN {before("err", "invalid params length")}
              ELSE IF ~convert_ok(FunTy(name).params)
              THEN {before("err", "conversion error")}
              ELSE LET r == fun_call(h, name, convert(FunTy(name).params, args))
                   IN  IF runtime_error(r)
                       THEN {after("err", "Got unexpected runtime error", r)}
                       ELSE IF ~as_i64_vec_ok(r.vals)
                       THEN {after("err", "unsupported return type", r)}
                       ELSE {after("ok", "", r) @@ [vals |-> as_i64_vec(r.vals)],
                             after("err", "jni error", r)})

\* The store of poke: byte 255 at address 0.
MemoryAfterCall(h, name) ==
    IF name = "poke" /\ Len(mem[h]) > 0
    THEN [mem EXCEPT ![h][1] = 255]
    ELSE mem

execute(h, name, args) ==
    /\ res' \in execute_results(h, name, args)
    /\ mem' = IF res'.invoked /\ ~res'.trapped THEN MemoryAfterCall(h, name) ELSE mem
    /\ UNCHANGED <<live, released, overflowChecks>>

\* ------------------------------------------------------------ create_host

\* The host functions created at instantiation: create_host(store, sig, jvm,
\* ins, host_id) for each import.
HostFunctions ==
    {[ins |-> 1, host_id |-> 5, params |-> <<"I32", "I64">>, results |-> <<"I32">>],
     [ins |-> 2, host_id |-> 0, params |-> <<"V128">>,       results |-> <<>>],
     [ins |-> 2, host_id |-> 1, params |-> <<>>,             results |-> <<"FuncRef">>]}

\* The arguments the engine passes a host function of these parameter types.
EngineArgs(params) ==
    IF params = <<"I32", "I64">>
    THEN {<<Val("I32", -1), Val("I64", IntMod + 1)>>, <<Val("I32", 1), Val("I64", -2)>>}
    ELSE IF params = <<"V128">> THEN {<<Val("V128", 0)>>}
    ELSE {<<>>}

\* The jlong arrays onHostFunction returns for these result types.
DispatchReturns(results) ==
    IF Len(results) = 1 THEN {<<IntMod + 1>>, <<-1>>} ELSE {<<>>}

\* One call of Natives.onHostFunction(ins, host_id, v).
DispatchSwapped(ins, host_id, v) == [ins |-> host_id, host_id |-> ins, v |-> v]
Dispatch(ins, host_id, v) == [ins |-> ins, host_id |-> host_id, v |-> v]

\* What one invocation of the closure of create_host(.., ins, host_id) does:
\* the calls of onHostFunction it makes and what it returns to the engine.
create_host(f, args) ==
    LET call == [op |-> "host", f |-> f, args |-> args]
        early(msg) ==
            call @@ [kind |-> "err", msg |-> msg, dispatched |-> <<>>]
        late(kind, msg, ret) ==
            call @@ [kind |-> kind, msg |-> msg, ret |-> ret,
                     dispatched |-> <<Dispatch(f.ins, f.host_id, as_i64_vec(args))>>]
    IN  {early("get_env failed")} \cup
        (IF ~as_i64_vec_ok(args) THEN {early("unexpected param type")}
         ELSE {early("cannot make the jlong array")}
              \cup {late("err", "java exception", <<>>),
                    late("err", "unexpected return type", <<>>),
                    late("err", "cannot read the jlong array", <<>>)}
              \cup (IF ~convert_ok(f.results)
                    THEN {late("err", "conversion error", ret) :
                            ret \in DispatchReturns(f.results)}
                    ELSE {late("ok", "", ret) @@ [vals |-> convert(f.results, ret)] :
                            ret \in DispatchReturns(f.results)}))

\* The engine calls an imported host function.
host_call(f, args) ==
    /\ res' \in create_host(f, args)
    /\ UNCHANGED <<live, mem, released, overflowChecks>>

\* ------------------------------------------------------------ specification

Next ==
    \/ \E h \in Handles, off \in Offs, len \in Lens : get_memory(h, off, len)
    \/ \E h \in Handles, off \in Offs, buf \in Bufs : set_memory(h, off, buf)
    \/ \E h \in Descriptors : close(h)
    \/ \E h \in Handles, name \in MethodNames, args \in ArgVectors : execute(h, name, args)
    \/ \E f \in HostFunctions : \E args \in EngineArgs(f.params) : host_call(f, args)

Spec == Init /\ [][Next]_vars

\* ------------------------------------------------------------------ claims

\* The call res records was made with a handle that resolved to a live instance.
OnLiveHandle(r) == r.kind # "no_instance"

\* C1: get_memory on a live handle returns the failure "memory access
\* overflow" whenever off < 0, len < 0 or off + len, as a mathematical sum,
\* exceeds the memory size; it neither panics nor returns a byte array.  (A
\* call that got as far as making the jbyteArray and failed there is left
\* out: what is shown is a panic or a byte array.)
C1_GetMemoryRejectsOutOfRange ==
    (/\ res.op = "get_memory"
     /\ OnLiveHandle(res)
     /\ HasMemoryExport(res.h)
     /\ (res.off < 0 \/ res.len < 0 \/ res.off + res.len > data_size(res.h))
     /\ res.msg # "jni error")
    => (res.kind = "err" /\ res.msg = "memory access overflow")

\* C2: set_memory on a live handle with off < 0 or off + len(buf) greater than
\* the memory size returns a failure and leaves every byte of the memory as
\* it was.
C2_SetMemoryRejectsOutOfRange ==
    [][(/\ res'.op = "set_memory"
        /\ OnLiveHandle(res')
        /\ (res'.off < 0 \/ res'.off + Len(res'.buf) > data_size(res'.h)))
       => (res'.kind = "err" /\ mem' = mem)]_vars

C4_GetMemoryReadsInRange ==
    (/\ res.op = "get_memory"
     /\ OnLiveHandle(res)
     /\ HasMemoryExport(res.h)
     /\ 0 <= res.off /\ 0 <= res.len
     /\ res.off + res.len <= data_size(res.h)
     /\ res.msg # "jni error")
    => (/\ res.kind = "ok"
        /\ Len(res.data) = res.len
        /\ \A i \in 1 .. res.len : AsU8(res.data[i]) = mem[res.h][res.off + i])

\* C5: execute on a live handle, naming an exported function, with an
\* argument vector whose length differs from the function's parameter count
\* returns "invalid params length" without calling the function: memory,
\* live handles and releases are as before.
C5_ArityMismatchRejected ==
    [][(/\ res'.op = "execute"
        /\ OnLiveHandle(res')
        /\ res'.name \in FunctionNames
        /\ Len(res'.args) # Len(FunTy(res'.name).params)
        /\ res'.msg # "jni error")
       => (/\ res'.kind = "err"
           /\ res'.msg = "invalid params length"
           /\ ~res'.invoked
           /\ mem' = mem /\ live' = live /\ released' = released)]_vars

C5_Witness ==
    /\ res.op = "execute"
    /\ res.name = "poke"
    /\ Len(res.args) = 1
    /\ res.msg = "invalid params length"
    /\ data_size(res.h) > 0

\* C6: execute returns a result array only when the named function was called
\* and completed without a trap; a missing export fails before any function
\* is called, and a trap fails with "Got unexpected runtime error".
C6_NoResultOnMissingOrTrap ==
    res.op = "execute" =>
        /\ res.kind = "ok" =>
              (res.invoked /\ ~res.trapped /\ res.name \in ExportNames(res.h))
        /\ (OnLiveHandle(res) /\ res.name \notin ExportNames(res.h)) =>
              (res.kind = "err" /\ ~res.invoked)
        /\ res.trapped =>
              (res.kind = "err" /\ res.msg = "Got unexpected runtime error")

C6_Witness ==
    /\ res.op = "execute"
    /\ res.trapped
    /\ res.kind = "err"

\* C7 as stated: every invocation of a host function makes exactly one call of
\* onHostFunction.
C7_ExactlyOneDispatch ==
    res.op = "host" => Len(res.dispatched) = 1

\* C7 as amended: an invocation makes at most one call of onHostFunction, and
\* none exactly when the JNI environment, an argument's type or the making of
\* the argument array fails; the call passes the ins and host_id of
\* create_host and the arguments as 64-bit integers in order; a value is
\* returned only after the call, converted to the declared result types, and
\* every failure is returned as a runtime error.
C7_HostDispatch ==
    res.op = "host" =>
        /\ Len(res.dispatched) <= 1
        /\ res.dispatched = <<>> <=>
              res.msg \in {"get_env failed", "unexpected param type",
                           "cannot make the jlong array"}
        /\ res.dispatched # <<>> =>
              /\ res.dispatched[1].ins = res.f.ins
              /\ res.dispatched[1].host_id = res.f.host_id
              /\ Len(res.dispatched[1].v) = Len(res.args)
              /\ \A i \in 1 .. Len(res.args) : res.dispatched[1].v[i] = res.args[i].v
        /\ res.kind \in {"ok", "err"}
        /\ res.kind = "err" => "vals" \notin DOMAIN res
        /\ res.kind = "ok" =>
              /\ res.dispatched # <<>>
              /\ Len(res.vals) = Len(res.f.results)
              /\ \A i \in 1 .. Len(res.vals) :
                    /\ res.vals[i].ty = res.f.results[i]
                    /\ res.vals[i].v = IF res.f.results[i] = "I32"
                                       THEN AsI32(res.ret[i]) ELSE res.ret[i]

C7_Witness ==
    /\ res.op = "host"
    /\ res.kind = "ok"
    /\ Len(res.dispatched) = 1
    /\ Len(res.args) = 2
    /\ res.vals[1].v # res.ret[1]

\* C8: after set_memory(h, off, buf) succeeds, get_memory(h, off, len(buf))
\* succeeds and returns buf (unless the JVM cannot make the array), and the
\* bytes outside off .. off + len(buf) - 1 are as before the set_memory.
C8_SetGetRoundTrip ==
    [][/\ (/\ res.op = "set_memory" /\ res.kind = "ok"
           /\ res'.op = "get_memory"
           /\ res'.h = res.h /\ res'.off = res.off /\ res'.len = Len(res.buf)
           /\ res'.msg # "jni error")
          => (res'.kind = "ok" /\ res'.data = res.buf)
       /\ (res'.op = "set_memory" /\ res'.kind = "ok")
          => \A a \in 1 .. Len(mem[res'.h]) :
                (a <= res'.off \/ a > res'.off + Len(res'.buf))
                => mem'[res'.h][a] = mem[res'.h][a]]_vars

C10_CloseNullIsNoOp ==
    [][(res'.op = "close" /\ is_null(res'.h))
       => (/\ res'.kind = "ok"
           /\ live' = live /\ mem' = mem /\ released' = released)]_vars

C10_Witness ==
    /\ res.op = "close"
    /\ is_null(res.h)
    /\ live = Handles
    /\ \E a \in 1 .. Len(mem[1]) : mem[1][a] # 0

====
